---- MODULE Spec2Model ----
(***************************************************************************)
(* Model of juke: the playlist navigator (src/src/playlist.rs), the player *)
(* (src/src/player.rs) and the driver made of the App, its key handlers    *)
(* and the main loop (src/src/app.rs, src/src/input.rs, src/src/main.rs).  *)
(* Spec runs the playlist operations, SpecPlayer the player operations as  *)
(* time passes, SpecApp the whole program.                                 *)
(*                                                                         *)
(* Indices are 0-based as in the Rust code; TLA+ sequences are 1-based, so *)
(* element i of a Vec v is v[i + 1].                                       *)
(***************************************************************************)
EXTENDS Integers, Sequences, FiniteSets, TLC

\* ------------------------------------------------------------------ bounds

\* Longest track list explored (add_track stops growing the list there).
MaxTracks == 3

\* Largest argument handed to goto (indices past the end included).
MaxIndex == 5

\* Longest run of consecutive next() calls explored.
MaxStreak == 5

\* Track paths; a playlist may list the same file more than once.
Paths == {"a.mp3", "b.mp3", "c.mp3"}

\* The files whose content the decoder rejects on every attempt.
Undecodable == {"b.mp3"}

\* Latest instant of the clock explored (time advances in whole units).
MaxTime == 3

\* Length of the audio in a file, in time units.
AudioLen == 2

\* Largest seek step handed to seek_forward / seek_backward.
MaxStep == 2

\* Longest playlist handed to App::new.
MaxList == 2

\* Longest M3U file read, in lines.
MaxLines == 3

\* Longest search query typed in the track list.
MaxQuery == 1

\* The characters typed into the search query.
QueryChars == {"a", "b"}

\* Config.playback.seek_step, in time units (one unit is one seek step).
seek_step == 1

\* ------------------------------------------------------------------ state

VARIABLES
    tracks,           \* Playlist.tracks: Vec<Track>, a track being its path
    current_index,    \* Playlist.current_index: usize
    shuffle,          \* Playlist.shuffle: ShuffleState
    shuffle_indices,  \* Playlist.shuffle_indices: Vec<usize>
    repeat,           \* Playlist.repeat: RepeatMode
    op,               \* the last operation called on the playlist
    arg,              \* its argument (goto's index, add_track's path), else 0
    ret,              \* its return value (TRUE for the operations returning ())
    pre,              \* the Playlist fields as they were when it was called
    streak,           \* number of consecutive next() calls ending here
    base,             \* current_index when that run of next() calls began
    cycles,           \* consecutive cycle_repeat() calls ending here, counted
                      \* 1, 2, 3, 1, 2, 3, ... (0: the last call was another)
    origin,           \* the Playlist when that run of cycle_repeat() began
    fresh,            \* whether add_track is the only operation called since
                      \* construction
    pass              \* the shuffled pass under way, as an Option: begun by a
                      \* toggle_shuffle from Off to On under repeat Off on a
                      \* non-empty playlist and continued by next() alone, it
                      \* records the index into tracks that was current at
                      \* the toggle (start), the indices current_track() has
                      \* taken since, in order (seen), and whether next() has
                      \* returned false (done)

playlistVars == <<tracks, current_index, shuffle, shuffle_indices, repeat,
                  op, arg, ret, pre, streak, base, cycles, origin, fresh,
                  pass>>

\* The Playlist struct as a value.
Playlist == [tracks |-> tracks, current_index |-> current_index,
             shuffle |-> shuffle, shuffle_indices |-> shuffle_indices,
             repeat |-> repeat]

\* ------------------------------------------------------------------ helpers

\* Sequences over S of length lo..hi.
SeqsOf(S, lo, hi) == UNION {[1..n -> S] : n \in lo..hi}

\* Mutant: the shuffle may repeat an index and drop another.
Shuffles_with_repeats(n) == [1..n -> 0..(n - 1)]

\* What indices.shuffle(&mut thread_rng()) can leave in (0..n).collect():
\* any arrangement of 0..n-1.
Shuffles(n) == {p \in [1..n -> 0..(n - 1)] :
                   \A i, j \in 1..n : p[i] = p[j] => i = j}

\* Vec::swap(a, b), 0-based.
swap(v, a, b) == [v EXCEPT ![a + 1] = v[b + 1], ![b + 1] = v[a + 1]]

\* iter().position(|&i| i == x): the first 0-based position holding x, as an
\* Option (<<>> is None, <<k>> is Some(k)).
position(v, x) ==
    LET hits == {k \in 0..(Len(v) - 1) : v[k + 1] = x}
    IN  IF hits = {} THEN <<>>
        ELSE <<CHOOSE k \in hits : \A m \in hits : k <= m>>

\* slice.get(i): Option<&T>.
get(v, i) == IF i < Len(v) THEN <<v[i + 1]>> ELSE <<>>

\* Mutant: shuffle, once On, stays On.
toggle_stays_on(s) == "On"

\* ShuffleState::toggle
toggle(s) == IF s = "Off" THEN "On" ELSE "Off"

\* Mutant: the permutation is consulted whenever it reaches the index,
\* shuffle On or not.
get_actual_index_any(index) ==
    IF index < Len(shuffle_indices)
    THEN shuffle_indices[index + 1]
    ELSE index

\* Mutant: Single is skipped (All goes back to Off).
cycle_skips_single(m) == IF m = "Off" THEN "All" ELSE "Off"

\* RepeatMode::cycle
cycle(m) == CASE m = "Off" -> "All"
              [] m = "All" -> "Single"
              [] m = "Single" -> "Off"

\* Playlist::len
len == Len(tracks)

\* Playlist::get_actual_index
get_actual_index(index) ==
    IF shuffle = "On" /\ index < Len(shuffle_indices)
    THEN shuffle_indices[index + 1]
    ELSE index

\* Playlist::current_track: Option<&Track>.
current_track ==
    IF tracks = <<>> THEN <<>>
    ELSE get(tracks, get_actual_index(current_index))

\* get_actual_index and current_track evaluated on a saved Playlist value.
actual_index_of(pl) ==
    IF pl.shuffle = "On" /\ pl.current_index < Len(pl.shuffle_indices)
    THEN pl.shuffle_indices[pl.current_index + 1]
    ELSE pl.current_index

track_of(pl) ==
    IF pl.tracks = <<>> THEN <<>> ELSE get(pl.tracks, actual_index_of(pl))

\* ------------------------------------------------------------------ player

VARIABLES
    sink,                  \* Player.sink: Option<Sink>; a sink is its paused
                           \* flag and the audio left in its queue
    state,                 \* Player.state: PlaybackState
    current_path,          \* Player.current_path: Option<String>
    current_duration,      \* Player.current_duration: Duration
    playback_start,        \* Player.playback_start: Option<Instant>
    elapsed_before_pause,  \* Player.elapsed_before_pause: Duration
    now,                   \* the clock read by Instant::now()
    p_op,                  \* the last operation called on the player
    p_ret,                 \* its result: "Ok" or the PlayerError variant
    p_target,              \* the position it handed to seek_to, as an Option
    p_arg,                 \* the step given to seek_forward or seek_backward,
                           \* else 0
    p_pre,                 \* the Player fields, the clock and the previous
                           \* operation as they were when it was called
    played,                \* time spent with state = Playing since the last
                           \* successful load_track (or stop)
    seeked                 \* whether a seek has moved the position since then

playerVars == <<sink, state, current_path, current_duration, playback_start,
                elapsed_before_pause, now,
                p_op, p_ret, p_target, p_arg, p_pre, played, seeked>>

\* The Player struct as a value (the audio output handles left out).
Player == [sink |-> sink, state |-> state, current_path |-> current_path,
           current_duration |-> current_duration,
           playback_start |-> playback_start,
           elapsed_before_pause |-> elapsed_before_pause]

\* Player::new
new_player == [sink |-> <<>>, state |-> "Stopped", current_path |-> <<>>,
               current_duration |-> 0, playback_start |-> <<>>,
               elapsed_before_pause |-> 0]

\* Assignment of a Player value to the fields.
SetPlayer(pl) ==
    /\ sink' = pl.sink
    /\ state' = pl.state
    /\ current_path' = pl.current_path
    /\ current_duration' = pl.current_duration
    /\ playback_start' = pl.playback_start
    /\ elapsed_before_pause' = pl.elapsed_before_pause

\* The player right after Player::new(), at time 0.
PlayerInit ==
    /\ sink = new_player.sink
    /\ state = new_player.state
    /\ current_path = new_player.current_path
    /\ current_duration = new_player.current_duration
    /\ playback_start = new_player.playback_start
    /\ elapsed_before_pause = new_player.elapsed_before_pause
    /\ now = 0
    /\ p_op = "new"
    /\ p_ret = "Ok"
    /\ p_target = <<>>
    /\ p_arg = 0
    /\ p_pre = [player |-> new_player, now |-> 0, op |-> "new"]
    /\ played = 0
    /\ seeked = FALSE

\* ------------------------------------------------------------------ app state

VARIABLES
    running,              \* App.running
    ctrlc_running,        \* main's `running` flag, cleared by the Ctrl-C handler
    ui_mode,              \* App.ui_mode: UIMode
    search_query,         \* App.search_query, as a sequence of characters
    track_list_selected,  \* App.track_list_selected: usize
    filtered_indices,     \* App.filtered_indices: Vec<usize>
    pc,                   \* where the main thread stands
    a_op,                 \* the App operation under way that loads a track
                          \* ("none" outside start, next_track, previous_track,
                          \* track_list_play_selected and update's advance)
    a_ret,                \* what main's closure returned, and out of which
                          \* operation ("none" while it has not returned)
    terminal              \* the terminal: whether raw mode is enabled, whether
                          \* the alternate screen is entered, and the result of
                          \* cleanup_terminal ("none" while it has not run)

listVars == <<ui_mode, search_query, track_list_selected, filtered_indices>>

appVars == <<running, ctrlc_running, listVars, pc, a_op, a_ret, terminal>>

\* The fields of the playlist and of the player, and the call-level
\* bookkeeping kept beside each.
plFields == <<tracks, current_index, shuffle, shuffle_indices, repeat>>

plHist == <<op, arg, ret, pre, streak, base, cycles, origin, fresh, pass>>

pFields == <<sink, state, current_path, current_duration, playback_start,
             elapsed_before_pause>>

pHist == <<p_op, p_ret, p_target, p_arg, p_pre, played, seeked>>

\* The program as main begins (the App fields as App::new sets them).
AppInit ==
    /\ running = TRUE
    /\ ctrlc_running = TRUE
    /\ ui_mode = "Normal"
    /\ search_query = <<>>
    /\ track_list_selected = 0
    /\ filtered_indices = <<>>
    /\ pc = "main"
    /\ a_op = "none"
    /\ a_ret = [op |-> "none", err |-> "none"]
    /\ terminal = [raw_mode |-> FALSE, alternate_screen |-> FALSE,
                   cleanup |-> "none"]

\* ------------------------------------------------------------------ m3u state

VARIABLES
    m_lines,   \* the lines of the M3U file, each a sequence of characters
    m_tracks,  \* the Vec<Track> parse_m3u returned
    m_ret      \* its result: "Ok" or "IoError" ("none" before the call)

m3uVars == <<m_lines, m_tracks, m_ret>>

\* No M3U file has been read.
M3UInit ==
    /\ m_lines = <<>>
    /\ m_tracks = <<>>
    /\ m_ret = "none"

\* ------------------------------------------------------------------ Init

\* Playlist::new() (empty) or from_directory / from_m3u (any non-empty list).
PlaylistInit ==
    /\ tracks \in SeqsOf(Paths, 0, MaxTracks)
    /\ current_index = 0
    /\ shuffle = "Off"
    /\ shuffle_indices = <<>>
    /\ repeat = "Off"
    /\ op = "new"
    /\ arg = 0
    /\ ret = TRUE
    /\ pre = Playlist
    /\ streak = 0
    /\ base = 0
    /\ cycles = 0
    /\ origin = Playlist
    /\ fresh = TRUE
    /\ pass = <<>>

\* Every component as constructed.
Init ==
    /\ PlaylistInit
    /\ PlayerInit
    /\ AppInit
    /\ M3UInit

\* Bookkeeping of a call made on the playlist alone: which operation, its
\* argument and return value, and the fields before it; the player is not
\* involved.
Called(o, a, r) ==
    /\ UNCHANGED playerVars
    /\ UNCHANGED appVars
    /\ UNCHANGED m3uVars
    /\ op' = o
    /\ arg' = a
    /\ ret' = r
    /\ pre' = Playlist
    /\ cycles' = IF o = "cycle_repeat" THEN (cycles % 3) + 1 ELSE 0
    /\ origin' = IF o = "cycle_repeat" /\ cycles > 0 THEN origin ELSE Playlist
    /\ fresh' = (fresh /\ o = "add_track")
    /\ pass' =
        LET after == actual_index_of([tracks |-> tracks',
                                      current_index |-> current_index',
                                      shuffle |-> shuffle',
                                      shuffle_indices |-> shuffle_indices',
                                      repeat |-> repeat'])
        IN  IF o = "toggle_shuffle" /\ shuffle = "Off" /\ repeat = "Off"
               /\ tracks # <<>>
            THEN <<[start |-> get_actual_index(current_index),
                    seen |-> <<after>>, done |-> FALSE]>>
            ELSE IF o = "next" /\ pass # <<>> /\ ~pass[1].done
            THEN IF r
                 THEN <<[pass[1] EXCEPT !.seen = Append(@, after)]>>
                 ELSE <<[pass[1] EXCEPT !.done = TRUE]>>
            ELSE <<>>

\* A call other than next() ends the run of consecutive next() calls.
EndStreak ==
    /\ streak' = 0
    /\ base' = 0

\* ------------------------------------------------------------------ next

\* Mutant: the All branch without the modulo.
next_no_wrap ==
    IF tracks = <<>> THEN [index |-> current_index, ret |-> FALSE]
    ELSE CASE repeat = "Single" -> [index |-> current_index, ret |-> TRUE]
           [] repeat = "All" -> [index |-> current_index + 1, ret |-> TRUE]
           [] repeat = "Off" ->
                IF current_index + 1 < len
                THEN [index |-> current_index + 1, ret |-> TRUE]
                ELSE [index |-> current_index, ret |-> FALSE]

\* Mutant: the Off branch reports success at the last index.
next_off_true_at_end ==
    IF tracks = <<>> THEN [index |-> current_index, ret |-> FALSE]
    ELSE CASE repeat = "Single" -> [index |-> current_index, ret |-> TRUE]
           [] repeat = "All" ->
                [index |-> (current_index + 1) % len, ret |-> TRUE]
           [] repeat = "Off" ->
                IF current_index + 1 < len
                THEN [index |-> current_index + 1, ret |-> TRUE]
                ELSE [index |-> current_index, ret |-> TRUE]

\* Mutant: Single advances like All.
next_single_advances ==
    IF tracks = <<>> THEN [index |-> current_index, ret |-> FALSE]
    ELSE CASE repeat = "Single" ->
                [index |-> (current_index + 1) % len, ret |-> TRUE]
           [] repeat = "All" ->
                [index |-> (current_index + 1) % len, ret |-> TRUE]
           [] repeat = "Off" ->
                IF current_index + 1 < len
                THEN [index |-> current_index + 1, ret |-> TRUE]
                ELSE [index |-> current_index, ret |-> FALSE]

\* Body of Playlist::next: the new current_index and the value returned.
next_body ==
    IF tracks = <<>> THEN [index |-> current_index, ret |-> FALSE]
    ELSE CASE repeat = "Single" -> [index |-> current_index, ret |-> TRUE]
           [] repeat = "All" ->
                [index |-> (current_index + 1) % len, ret |-> TRUE]
           [] repeat = "Off" ->
                IF current_index + 1 < len
                THEN [index |-> current_index + 1, ret |-> TRUE]
                ELSE [index |-> current_index, ret |-> FALSE]

\* Playlist::next
next ==
    /\ streak < MaxStreak
    /\ current_index' = next_body.index
    /\ UNCHANGED <<tracks, shuffle, shuffle_indices, repeat>>
    /\ Called("next", 0, next_body.ret)
    /\ streak' = streak + 1
    /\ base' = IF streak = 0 THEN current_index ELSE base

\* ------------------------------------------------------------------ previous

\* Mutant: at index 0 under All, no wrap.
previous_no_wrap ==
    IF tracks = <<>> THEN [index |-> current_index, ret |-> FALSE]
    ELSE IF current_index > 0
         THEN [index |-> current_index - 1, ret |-> TRUE]
         ELSE [index |-> current_index, ret |-> FALSE]

\* Mutant: at index 0 it wraps whatever the repeat mode.
previous_always_wraps ==
    IF tracks = <<>> THEN [index |-> current_index, ret |-> FALSE]
    ELSE IF current_index > 0
         THEN [index |-> current_index - 1, ret |-> TRUE]
         ELSE [index |-> len - 1, ret |-> TRUE]

\* Body of Playlist::previous.
previous_body ==
    IF tracks = <<>> THEN [index |-> current_index, ret |-> FALSE]
    ELSE IF current_index > 0
         THEN [index |-> current_index - 1, ret |-> TRUE]
         ELSE IF repeat = "All"
              THEN [index |-> len - 1, ret |-> TRUE]
              ELSE [index |-> current_index, ret |-> FALSE]

\* Playlist::previous
previous ==
    /\ current_index' = previous_body.index
    /\ UNCHANGED <<tracks, shuffle, shuffle_indices, repeat>>
    /\ Called("previous", 0, previous_body.ret)
    /\ EndStreak

\* ------------------------------------------------------------------ goto

\* Mutant: the bound check is off by one.
goto_le(index) ==
    IF index <= len
    THEN [index |-> index, ret |-> TRUE]
    ELSE [index |-> current_index, ret |-> FALSE]

\* Body of Playlist::goto.
goto_body(index) ==
    IF index < len
    THEN [index |-> index, ret |-> TRUE]
    ELSE [index |-> current_index, ret |-> FALSE]

\* Playlist::goto, for every argument 0..MaxIndex.
goto ==
    \E index \in 0..MaxIndex :
        /\ current_index' = goto_body(index).index
        /\ UNCHANGED <<tracks, shuffle, shuffle_indices, repeat>>
        /\ Called("goto", index, goto_body(index).ret)
        /\ EndStreak

\* ------------------------------------------------------------------ shuffle

\* Mutant: the current track is not moved to position 0.
regenerate_no_swap(indices, index) == indices

\* Mutant: position 0 is overwritten instead of swapped.
regenerate_overwrite(indices, index) ==
    IF position(indices, index) # <<>>
    THEN [indices EXCEPT ![1] = index]
    ELSE indices

\* Playlist::regenerate_shuffle, given what the random shuffle produced and
\* the current_index at the call: the new shuffle_indices (current_index
\* becomes 0).
regenerate_shuffle(indices, index) ==
    IF position(indices, index) # <<>>
    THEN swap(indices, 0, position(indices, index)[1])
    ELSE indices

\* Playlist::toggle_shuffle
toggle_shuffle ==
    /\ shuffle' = toggle(shuffle)
    /\ IF toggle(shuffle) = "On"
       THEN \E p \in Shuffles(len) :
                /\ shuffle_indices' = regenerate_shuffle(p, current_index)
                /\ current_index' = 0
       ELSE UNCHANGED <<shuffle_indices, current_index>>
    /\ UNCHANGED <<tracks, repeat>>
    /\ Called("toggle_shuffle", 0, TRUE)
    /\ EndStreak

\* Playlist::cycle_repeat
cycle_repeat ==
    /\ repeat' = cycle(repeat)
    /\ UNCHANGED <<tracks, current_index, shuffle, shuffle_indices>>
    /\ Called("cycle_repeat", 0, TRUE)
    /\ EndStreak

\* Mutant: the new track goes to the front.
push_front(v, x) == <<x>> \o v

\* Mutant: the new track takes the place of the last one.
push_over_last(v, x) ==
    IF v = <<>> THEN <<x>> ELSE [v EXCEPT ![Len(v)] = x]

\* Vec::push
push(v, x) == Append(v, x)

\* Playlist::add_track
add_track ==
    /\ len < MaxTracks
    /\ \E track \in Paths :
        /\ tracks' = push(tracks, track)
        /\ IF shuffle = "On"
           THEN \E p \in Shuffles(len + 1) :
                    /\ shuffle_indices' = regenerate_shuffle(p, current_index)
                    /\ current_index' = 0
           ELSE UNCHANGED <<shuffle_indices, current_index>>
        /\ UNCHANGED <<shuffle, repeat>>
        /\ Called("add_track", track, TRUE)
        /\ EndStreak

\* ------------------------------------------------------------------ player operations

Max(a, b) == IF a >= b THEN a ELSE b

\* What loading a file can end in: the file cannot be opened (FileError),
\* no sink can be created (InitializationError), and, by its content, either
\* the decoder rejects it (DecodeError) or the load succeeds.
LoadOutcomes(path) ==
    {"FileError", "InitializationError"}
        \cup (IF path \in Undecodable THEN {"DecodeError"} ELSE {"Ok"})

\* Instant::elapsed
elapsed(start) == now - start

\* Player::current_position
current_position ==
    IF playback_start # <<>>
    THEN elapsed_before_pause + elapsed(playback_start[1])
    ELSE elapsed_before_pause

\* current_position of a saved Player value, read at instant t.
position_of(pl, t) ==
    IF pl.playback_start # <<>>
    THEN pl.elapsed_before_pause + (t - pl.playback_start[1])
    ELSE pl.elapsed_before_pause

\* Player::has_track
has_track == sink # <<>>

\* Player::is_finished (Sink::empty: nothing left in the queue)
is_finished == IF sink = <<>> THEN TRUE ELSE sink[1].left = 0

\* Mutant: the fields are updated although the load failed.
load_track_not_atomic(path, outcome, known) ==
    [player |-> [sink |-> <<[paused |-> TRUE, left |-> AudioLen]>>,
                 state |-> "Paused",
                 current_path |-> <<path>>,
                 current_duration |-> IF known THEN AudioLen ELSE 0,
                 playback_start |-> <<>>,
                 elapsed_before_pause |-> 0],
     ret |-> outcome]

\* Mutant: the position tracking of the previous track is not reset.
load_track_keeps_position(path, outcome, known) ==
    IF outcome # "Ok" THEN [player |-> Player, ret |-> outcome]
    ELSE [player |-> [sink |-> <<[paused |-> TRUE, left |-> AudioLen]>>,
                      state |-> "Paused",
                      current_path |-> <<path>>,
                      current_duration |-> IF known THEN AudioLen ELSE 0,
                      playback_start |-> playback_start,
                      elapsed_before_pause |-> elapsed_before_pause],
          ret |-> "Ok"]

\* Body of Player::load_track for a file whose loading ends in `outcome` and
\* whose decoder reports its total duration iff `known`: the new Player and
\* the result. Every failure returns before any field is assigned.
load_track_body(path, outcome, known) ==
    IF outcome # "Ok" THEN [player |-> Player, ret |-> outcome]
    ELSE [player |-> [sink |-> <<[paused |-> TRUE, left |-> AudioLen]>>,
                      state |-> "Paused",
                      current_path |-> <<path>>,
                      current_duration |-> IF known THEN AudioLen ELSE 0,
                      playback_start |-> <<>>,
                      elapsed_before_pause |-> 0],
          ret |-> "Ok"]

\* Mutant: play re-arms the start timestamp whenever a track is loaded.
play_always_rearms ==
    IF sink # <<>>
    THEN [Player EXCEPT !.sink = <<[sink[1] EXCEPT !.paused = FALSE]>>,
                        !.state = "Playing",
                        !.playback_start = <<now>>]
    ELSE Player

\* Mutant: play does not ask for a sink.
play_without_track ==
    IF sink = <<>>
    THEN [Player EXCEPT !.state = "Playing", !.playback_start = <<now>>]
    ELSE IF sink[1].paused
    THEN [Player EXCEPT !.sink = <<[sink[1] EXCEPT !.paused = FALSE]>>,
                        !.state = "Playing",
                        !.playback_start = <<now>>]
    ELSE Player

\* Body of Player::play: the new Player.
play_body ==
    IF sink # <<>> /\ sink[1].paused
    THEN [Player EXCEPT !.sink = <<[sink[1] EXCEPT !.paused = FALSE]>>,
                        !.state = "Playing",
                        !.playback_start = <<now>>]
    ELSE Player

\* Mutant: pause leaves the start timestamp armed.
pause_keeps_start ==
    IF sink # <<>> /\ ~sink[1].paused
    THEN [Player EXCEPT !.sink = <<[sink[1] EXCEPT !.paused = TRUE]>>,
                        !.state = "Paused"]
    ELSE Player

\* Mutant: pause does not fold the running time into elapsed_before_pause.
pause_drops_elapsed ==
    IF sink # <<>> /\ ~sink[1].paused
    THEN [Player EXCEPT !.sink = <<[sink[1] EXCEPT !.paused = TRUE]>>,
                        !.state = "Paused",
                        !.playback_start = <<>>]
    ELSE Player

\* Body of Player::pause: the new Player.
pause_body ==
    IF sink # <<>> /\ ~sink[1].paused
    THEN [Player EXCEPT !.sink = <<[sink[1] EXCEPT !.paused = TRUE]>>,
                        !.state = "Paused",
                        !.elapsed_before_pause =
                            IF playback_start # <<>>
                            THEN elapsed_before_pause + elapsed(playback_start[1])
                            ELSE elapsed_before_pause,
                        !.playback_start = <<>>]
    ELSE Player

\* Body of Player::toggle_play_pause.
toggle_play_pause_body ==
    IF state = "Playing" THEN pause_body ELSE play_body

\* Mutant: stop forgets to clear the path of the track.
stop_keeps_path == [new_player EXCEPT !.current_path = current_path]

\* Body of Player::stop.
stop_body == new_player

\* Mutant: a seek always leaves the player paused.
seek_to_pauses(pos, outcome) ==
    IF current_path = <<>>
    THEN [player |-> Player, ret |-> "Ok", target |-> <<>>]
    ELSE IF outcome # "Ok"
    THEN [player |-> Player, ret |-> outcome, target |-> <<pos>>]
    ELSE [player |-> [Player EXCEPT
                        !.sink = <<[paused |-> TRUE,
                                    left |-> Max(AudioLen - pos, 0)]>>,
                        !.elapsed_before_pause = pos,
                        !.playback_start = <<>>,
                        !.state = "Paused"],
          ret |-> "Ok", target |-> <<pos>>]

\* Mutant: the old sink is dropped before the reload, so a failed reload
\* leaves the player without sink.
seek_to_not_atomic(pos, outcome) ==
    IF current_path = <<>>
    THEN [player |-> Player, ret |-> "Ok", target |-> <<>>]
    ELSE IF outcome # "Ok"
    THEN [player |-> [Player EXCEPT !.sink = <<>>],
          ret |-> outcome, target |-> <<pos>>]
    ELSE LET was_playing == state = "Playing"
         IN  [player |-> [Player EXCEPT
                            !.sink = <<[paused |-> ~was_playing,
                                        left |-> Max(AudioLen - pos, 0)]>>,
                            !.elapsed_before_pause = pos,
                            !.playback_start =
                                IF was_playing THEN <<now>> ELSE <<>>,
                            !.state =
                                IF was_playing THEN "Playing" ELSE "Paused"],
              ret |-> "Ok", target |-> <<pos>>]

\* Body of Player::seek_to: without a current path nothing happens; a
\* failed reload returns before any field is assigned; otherwise a new sink
\* holds the audio from `pos` on, paused unless the player was Playing.
seek_to_body(pos, outcome) ==
    IF current_path = <<>>
    THEN [player |-> Player, ret |-> "Ok", target |-> <<>>]
    ELSE IF outcome # "Ok"
    THEN [player |-> Player, ret |-> outcome, target |-> <<pos>>]
    ELSE LET was_playing == state = "Playing"
         IN  [player |-> [Player EXCEPT
                            !.sink = <<[paused |-> ~was_playing,
                                        left |-> Max(AudioLen - pos, 0)]>>,
                            !.elapsed_before_pause = pos,
                            !.playback_start =
                                IF was_playing THEN <<now>> ELSE <<>>,
                            !.state =
                                IF was_playing THEN "Playing" ELSE "Paused"],
              ret |-> "Ok", target |-> <<pos>>]

\* Mutant: seek_forward lets the position reach the very end.
seek_forward_to_end(step, outcome) ==
    LET new_pos == current_position + step
    IN  IF new_pos > current_duration
        THEN [player |-> Player, ret |-> "Ok", target |-> <<>>]
        ELSE seek_to_body(new_pos, outcome)

\* Body of Player::seek_forward.
seek_forward_body(step, outcome) ==
    LET new_pos == current_position + step
    IN  IF new_pos >= current_duration
        THEN [player |-> Player, ret |-> "Ok", target |-> <<>>]
        ELSE seek_to_body(new_pos, outcome)

\* Mutant: the subtraction does not saturate at zero.
seek_backward_unsaturated(step, outcome) ==
    seek_to_body(current_position - step, outcome)

\* Body of Player::seek_backward (Duration::saturating_sub).
seek_backward_body(step, outcome) ==
    seek_to_body(Max(current_position - step, 0), outcome)

\* Bookkeeping of a call made on the player alone: which operation, its
\* result, the target it handed to seek_to, and the player before it. The
\* call takes no time and the playlist is not involved.
PCalledWith(o, a, r, t) ==
    /\ UNCHANGED playlistVars
    /\ UNCHANGED appVars
    /\ UNCHANGED m3uVars
    /\ UNCHANGED now
    /\ p_op' = o
    /\ p_ret' = r
    /\ p_target' = t
    /\ p_arg' = a
    /\ p_pre' = [player |-> Player, now |-> now, op |-> p_op]
    /\ played' = IF (o = "load_track" /\ r = "Ok") \/ o = "stop"
                 THEN 0 ELSE played
    /\ seeked' = IF (o = "load_track" /\ r = "Ok") \/ o = "stop"
                 THEN FALSE
                 ELSE seeked \/ (r = "Ok" /\ t # <<>>)

\* The same for an operation without argument.
PCalled(o, r, t) == PCalledWith(o, 0, r, t)

\* What reloading the current file in seek_to can end in.
SeekOutcomes == {"Ok", "FileError", "DecodeError", "InitializationError"}

\* Player::load_track
load_track ==
    \E path \in Paths : \E outcome \in LoadOutcomes(path) : \E known \in BOOLEAN :
        /\ SetPlayer(load_track_body(path, outcome, known).player)
        /\ PCalled("load_track", load_track_body(path, outcome, known).ret, <<>>)

\* Player::play
play ==
    /\ SetPlayer(play_body)
    /\ PCalled("play", "Ok", <<>>)

\* Player::pause
pause ==
    /\ SetPlayer(pause_body)
    /\ PCalled("pause", "Ok", <<>>)

\* Player::toggle_play_pause
toggle_play_pause ==
    /\ SetPlayer(toggle_play_pause_body)
    /\ PCalled("toggle_play_pause", "Ok", <<>>)

\* Player::stop
stop ==
    /\ SetPlayer(stop_body)
    /\ PCalled("stop", "Ok", <<>>)

\* Player::seek_forward
seek_forward ==
    \E step \in 1..MaxStep : \E outcome \in SeekOutcomes :
        /\ SetPlayer(seek_forward_body(step, outcome).player)
        /\ PCalledWith("seek_forward", step,
                       seek_forward_body(step, outcome).ret,
                       seek_forward_body(step, outcome).target)

\* Player::seek_backward
seek_backward ==
    \E step \in 1..MaxStep : \E outcome \in SeekOutcomes :
        /\ SetPlayer(seek_backward_body(step, outcome).player)
        /\ PCalledWith("seek_backward", step,
                       seek_backward_body(step, outcome).ret,
                       seek_backward_body(step, outcome).target)

\* One unit of time passes: the clock advances and a sink that is not
\* paused plays one unit of the audio left in its queue.
Tick ==
    /\ now < MaxTime
    /\ now' = now + 1
    /\ sink' = IF sink # <<>> /\ ~sink[1].paused
               THEN <<[sink[1] EXCEPT !.left = Max(sink[1].left - 1, 0)]>>
               ELSE sink
    /\ played' = IF state = "Playing" THEN played + 1 ELSE played
    /\ UNCHANGED <<state, current_path, current_duration, playback_start,
                   elapsed_before_pause, p_op, p_ret, p_target, p_arg, p_pre,
                   seeked>>
    /\ UNCHANGED playlistVars
    /\ UNCHANGED appVars
    /\ UNCHANGED m3uVars

\* ------------------------------------------------------------------ app

\* The driver (src/src/app.rs, src/src/main.rs, src/src/input.rs): one thread
\* runs main's closure (App::new, App::start, run_main_loop), the Ctrl-C
\* handler runs beside it.

\* Mutant: the track is loaded and left paused.
play_of_leaves_paused(pl) == pl

\* Player::play applied to a Player value at the current instant.
play_of(pl) ==
    IF pl.sink # <<>> /\ pl.sink[1].paused
    THEN [pl EXCEPT !.sink = <<[pl.sink[1] EXCEPT !.paused = FALSE]>>,
                    !.state = "Playing",
                    !.playback_start = <<now>>]
    ELSE pl

\* Track::display_name of a track without a title tag: the file name, as
\* the characters the search filter compares.
display_name(track) ==
    CASE track = "a.mp3" -> <<"a", ".", "m", "p", "3">>
      [] track = "b.mp3" -> <<"b", ".", "m", "p", "3">>
      [] track = "c.mp3" -> <<"c", ".", "m", "p", "3">>

\* str::contains
contains(text, pattern) ==
    \E k \in 0..(Len(text) - Len(pattern)) :
        \A j \in 1..Len(pattern) : text[k + j] = pattern[j]

\* The indices App::update_filtered_indices collects for a query, in track
\* order (an empty query keeps every track).
RECURSIVE matching(_, _)
matching(query, n) ==
    IF n = 0 THEN <<>>
    ELSE IF query = <<>> \/ contains(display_name(tracks[n]), query)
         THEN Append(matching(query, n - 1), n - 1)
         ELSE matching(query, n - 1)

\* Mutant: a selection past the end of the new list is kept.
update_filtered_indices_keeps_selection(query, selected) ==
    [filtered |-> matching(query, len), selected |-> selected]

\* App::update_filtered_indices for a query and the selection at the call:
\* the new filtered_indices and track_list_selected.
update_filtered_indices(query, selected) ==
    LET found == matching(query, len)
    IN  [filtered |-> found,
         selected |-> IF selected >= Len(found) THEN 0 ELSE selected]

\* App::set_ui_mode: the new ui_mode, search_query, track_list_selected and
\* filtered_indices (display_status is the caller's conjunct).
set_ui_mode(mode) ==
    /\ ui_mode' = mode
    /\ IF mode = "TrackList"
       THEN LET u == update_filtered_indices(search_query, track_list_selected)
            IN  /\ filtered_indices' = u.filtered
                /\ track_list_selected' =
                       IF position(u.filtered, current_index) # <<>>
                       THEN position(u.filtered, current_index)[1]
                       ELSE 0
                /\ UNCHANGED search_query
       ELSE /\ search_query' = <<>>
            /\ UNCHANGED <<track_list_selected, filtered_indices>>

\* render_track_list_view: the rows of the track list (0-based positions in
\* filtered_indices) that carry the mark of the track being played.
playing_rows ==
    {k \in 0..(Len(filtered_indices) - 1) :
        filtered_indices[k + 1] = current_index}

\* App::display_status: a failed terminal draw clears App.running.
display_status == \E draw_ok \in BOOLEAN : running' = (running /\ draw_ok)

\* cleanup_terminal: disable_raw_mode, then LeaveAlternateScreen, each
\* returned with `?` when it fails.
cleanup_terminal(raw_ok, leave_ok) ==
    IF ~raw_ok THEN [terminal EXCEPT !.cleanup = "IoError"]
    ELSE IF ~leave_ok
    THEN [terminal EXCEPT !.raw_mode = FALSE, !.cleanup = "IoError"]
    ELSE [raw_mode |-> FALSE, alternate_screen |-> FALSE, cleanup |-> "Ok"]

\* The process ends with `result`, which came out of operation `by`: a
\* Player that was made is dropped.
EndProcess(by, result) ==
    /\ pc' = "exited"
    /\ a_ret' = [op |-> by, err |-> result]
    /\ SetPlayer(new_player)

\* main's closure returns `result`, which came out of operation `by`: the
\* App is dropped, main calls cleanup_terminal and returns.
Exit(by, result) ==
    /\ EndProcess(by, result)
    /\ \E raw_ok \in BOOLEAN : \E leave_ok \in BOOLEAN :
            terminal' = cleanup_terminal(raw_ok, leave_ok)

\* One step of the main thread: the call-level bookkeeping of the playlist
\* and player specifications is not involved, nor is the Ctrl-C flag.
Step ==
    /\ pc # "exited"
    /\ UNCHANGED <<plHist, pHist, ctrlc_running, m3uVars>>

\* Mutant: an empty scan makes an empty playlist.
from_tracks_accepts_empty(found) ==
    [err |-> "Ok",
     playlist |-> [tracks |-> found, current_index |-> 0, shuffle |-> "Off",
                   shuffle_indices |-> <<>>, repeat |-> "Off"]]

\* Playlist::from_directory / from_m3u once scan_directory / parse_m3u has
\* returned the tracks it found: the error, or the playlist.
from_tracks(found) ==
    IF found = <<>>
    THEN [err |-> "EmptyPlaylist", playlist |-> Playlist]
    ELSE [err |-> "Ok",
          playlist |-> [tracks |-> found, current_index |-> 0,
                        shuffle |-> "Off", shuffle_indices |-> <<>>,
                        repeat |-> "Off"]]

\* The order of paths that scan_directory's sort leaves.
path_rank(path) ==
    CASE path = "a.mp3" -> 0
      [] path = "b.mp3" -> 1
      [] path = "c.mp3" -> 2

\* What scan_directory can return for a directory of at most MaxList audio
\* files: their paths, sorted (an M3U file listing the same paths in that
\* order makes the same playlist).
scan_directory ==
    {found \in SeqsOf(Paths, 0, MaxList) :
        \A i \in 1..(Len(found) - 1) :
            path_rank(found[i]) < path_rank(found[i + 1])}

\* main up to the terminal setup: load_playlist on the path argument, which
\* is neither a directory nor an .m3u file (BadPath), cannot be read
\* (IoError), or holds the tracks `found`; then main's own is_empty check.
LoadPlaylist ==
    /\ pc = "main"
    /\ Step
    /\ \E outcome \in {"BadPath", "IoError", "Ok"} :
       \E found \in scan_directory :
        LET r == from_tracks(found)
        IN  CASE outcome # "Ok" ->
                    /\ EndProcess("load_playlist", outcome)
                    /\ UNCHANGED plFields
              [] outcome = "Ok" /\ r.err # "Ok" ->
                    /\ EndProcess("load_playlist", r.err)
                    /\ UNCHANGED plFields
              [] outcome = "Ok" /\ r.err = "Ok" ->
                    /\ tracks' = r.playlist.tracks
                    /\ current_index' = r.playlist.current_index
                    /\ shuffle' = r.playlist.shuffle
                    /\ shuffle_indices' = r.playlist.shuffle_indices
                    /\ repeat' = r.playlist.repeat
                    /\ IF r.playlist.tracks = <<>>
                       THEN EndProcess("main", "NoAudioFiles")
                       ELSE pc' = "terminal" /\ UNCHANGED <<pFields, a_ret>>
    /\ UNCHANGED <<now, running, listVars, a_op, terminal>>

\* main's terminal setup: enable_raw_mode and EnterAlternateScreen, each
\* returned with `?` when it fails; then the Ctrl-C handler, whose
\* installation panics when it fails, and only then the panic hook that
\* calls cleanup_terminal.
SetupTerminal ==
    /\ pc = "terminal"
    /\ Step
    /\ \E outcome \in {"RawModeError", "ScreenError", "HandlerPanic", "Ok"} :
        CASE outcome = "RawModeError" ->
                /\ EndProcess("enable_raw_mode", "IoError")
                /\ UNCHANGED terminal
          [] outcome = "ScreenError" ->
                /\ EndProcess("EnterAlternateScreen", "IoError")
                /\ terminal' = [terminal EXCEPT !.raw_mode = TRUE]
          [] outcome = "HandlerPanic" ->
                /\ EndProcess("set_handler", "panic")
                /\ terminal' = [terminal EXCEPT !.raw_mode = TRUE,
                                                !.alternate_screen = TRUE]
          [] outcome = "Ok" ->
                /\ terminal' = [terminal EXCEPT !.raw_mode = TRUE,
                                                !.alternate_screen = TRUE]
                /\ pc' = "new"
                /\ UNCHANGED <<pFields, a_ret>>
    /\ UNCHANGED <<plFields, now, running, listVars, a_op>>

\* App::new: Player::new or Terminal::new may fail.
AppNew ==
    /\ pc = "new"
    /\ Step
    /\ \E ok \in BOOLEAN :
        IF ok THEN pc' = "start" /\ UNCHANGED <<pFields, a_ret, terminal>>
        ELSE Exit("new", "InitializationError")
    /\ UNCHANGED <<plFields, now, running, listVars, a_op>>

\* App::start: loads the first track with `?` and plays it.
AppStart ==
    /\ pc = "start"
    /\ Step
    /\ IF current_track = <<>>
       THEN /\ pc' = "loop"
            /\ UNCHANGED <<pFields, running, a_ret, terminal>>
       ELSE \E outcome \in LoadOutcomes(current_track[1]) : \E known \in BOOLEAN :
              LET r == load_track_body(current_track[1], outcome, known)
              IN  IF r.ret # "Ok"
                  THEN /\ Exit("start", r.ret)
                       /\ UNCHANGED running
                  ELSE /\ SetPlayer(play_of(r.player))
                       /\ display_status
                       /\ pc' = "loop"
                       /\ UNCHANGED <<a_ret, terminal>>
    /\ UNCHANGED <<plFields, now, listVars, a_op>>

\* run_main_loop's condition; once it fails main calls App::stop_playback
\* (Player::stop) and the closure returns Ok.
LoopCheck ==
    /\ pc = "loop"
    /\ Step
    /\ IF running /\ ctrlc_running
       THEN /\ pc' = "input"
            /\ UNCHANGED <<pFields, a_ret, terminal>>
       ELSE Exit("run_main_loop", "Ok")
    /\ UNCHANGED <<plFields, now, running, listVars,
                   a_op>>

\* handle_input: no event within the poll timeout, or a key bound to
\* nothing in the current mode.
NoKey ==
    /\ pc = "input"
    /\ Step
    /\ pc' = "update"
    /\ UNCHANGED <<plFields, pFields, now, running, listVars,
                   a_op, a_ret, terminal>>

\* handle_input: event::poll or event::read fails.
InputError ==
    /\ pc = "input"
    /\ Step
    /\ Exit("handle_input", "IoError")
    /\ UNCHANGED <<plFields, now, running, listVars, a_op>>

\* 'q' or Esc in Normal mode: App::quit.
KeyQuit ==
    /\ pc = "input" /\ ui_mode = "Normal"
    /\ Step
    /\ SetPlayer(stop_body)
    /\ running' = FALSE
    /\ pc' = "update"
    /\ UNCHANGED <<plFields, now, listVars, a_op, a_ret, terminal>>

\* Space in Normal mode: App::toggle_play_pause.
KeyPlayPause ==
    /\ pc = "input" /\ ui_mode = "Normal"
    /\ Step
    /\ SetPlayer(toggle_play_pause_body)
    /\ display_status
    /\ pc' = "update"
    /\ UNCHANGED <<plFields, now, listVars, a_op, a_ret, terminal>>

\* 'n' or Right in Normal mode: App::next_track.
KeyNext ==
    /\ pc = "input" /\ ui_mode = "Normal"
    /\ Step
    /\ current_index' = next_body.index
    /\ a_op' = IF next_body.ret THEN "next_track" ELSE a_op
    /\ pc' = IF next_body.ret THEN "load" ELSE "update"
    /\ UNCHANGED <<tracks, shuffle, shuffle_indices, repeat, pFields, now,
                   running, listVars, a_ret, terminal>>

\* 'p' or Left in Normal mode: App::previous_track.
KeyPrevious ==
    /\ pc = "input" /\ ui_mode = "Normal"
    /\ Step
    /\ current_index' = previous_body.index
    /\ a_op' = IF previous_body.ret THEN "previous_track" ELSE a_op
    /\ pc' = IF previous_body.ret THEN "load" ELSE "update"
    /\ UNCHANGED <<tracks, shuffle, shuffle_indices, repeat, pFields, now,
                   running, listVars, a_ret, terminal>>

\* 's' in Normal mode: App::toggle_shuffle.
KeyShuffle ==
    /\ pc = "input" /\ ui_mode = "Normal"
    /\ Step
    /\ shuffle' = toggle(shuffle)
    /\ IF toggle(shuffle) = "On"
       THEN \E p \in Shuffles(len) :
                /\ shuffle_indices' = regenerate_shuffle(p, current_index)
                /\ current_index' = 0
       ELSE UNCHANGED <<shuffle_indices, current_index>>
    /\ display_status
    /\ pc' = "update"
    /\ UNCHANGED <<tracks, repeat, pFields, now, listVars,
                   a_op, a_ret, terminal>>

\* 'r' in Normal mode: App::cycle_repeat.
KeyRepeat ==
    /\ pc = "input" /\ ui_mode = "Normal"
    /\ Step
    /\ repeat' = cycle(repeat)
    /\ display_status
    /\ pc' = "update"
    /\ UNCHANGED <<tracks, current_index, shuffle, shuffle_indices, pFields,
                   now, listVars, a_op, a_ret, terminal>>

\* Shift+Right / Shift+Left in Normal mode: App::seek_forward / seek_backward
\* with the configured step; a failed reload is returned with `?`.
KeySeek ==
    /\ pc = "input" /\ ui_mode = "Normal"
    /\ Step
    /\ \E forward \in BOOLEAN : \E outcome \in SeekOutcomes :
        LET r == IF forward THEN seek_forward_body(seek_step, outcome)
                 ELSE seek_backward_body(seek_step, outcome)
        IN  IF r.ret = "Ok"
            THEN /\ SetPlayer(r.player)
                 /\ display_status
                 /\ pc' = "update"
                 /\ UNCHANGED <<a_ret, terminal>>
            ELSE /\ Exit("seek", r.ret)
                 /\ UNCHANGED running
    /\ UNCHANGED <<plFields, now, listVars, a_op>>

\* 't' or '?' in Normal mode, Esc in TrackList mode, any key in Help mode:
\* App::set_ui_mode.
KeyMode ==
    /\ pc = "input"
    /\ Step
    /\ \E mode \in (CASE ui_mode = "Normal" -> {"TrackList", "Help"}
                      [] OTHER -> {"Normal"}) :
        set_ui_mode(mode)
    /\ display_status
    /\ pc' = "update"
    /\ UNCHANGED <<plFields, pFields, now, a_op, a_ret, terminal>>

\* Up / Down in TrackList mode: App::track_list_up / track_list_down.
KeyUpDown ==
    /\ pc = "input" /\ ui_mode = "TrackList"
    /\ Step
    /\ \E up \in BOOLEAN :
        IF up
        THEN IF track_list_selected > 0
             THEN track_list_selected' = track_list_selected - 1 /\ display_status
             ELSE UNCHANGED <<track_list_selected, running>>
        ELSE IF track_list_selected < Max(Len(filtered_indices) - 1, 0)
             THEN track_list_selected' = track_list_selected + 1 /\ display_status
             ELSE UNCHANGED <<track_list_selected, running>>
    /\ pc' = "update"
    /\ UNCHANGED <<plFields, pFields, now, ui_mode, search_query,
                   filtered_indices, a_op, a_ret, terminal>>

\* A character or Backspace in TrackList mode: App::search_input /
\* search_backspace.
KeySearch ==
    /\ pc = "input" /\ ui_mode = "TrackList"
    /\ Step
    /\ \E query \in
            {Append(search_query, c) : c \in
                (IF Len(search_query) < MaxQuery THEN QueryChars ELSE {})}
            \cup {SubSeq(search_query, 1, Max(Len(search_query) - 1, 0))} :
        LET u == update_filtered_indices(query, track_list_selected)
        IN  /\ search_query' = query
            /\ filtered_indices' = u.filtered
            /\ track_list_selected' = u.selected
    /\ display_status
    /\ pc' = "update"
    /\ UNCHANGED <<plFields, pFields, now, ui_mode,
                   a_op, a_ret, terminal>>

\* Enter in TrackList mode: App::track_list_play_selected up to the call of
\* load_current_track.
KeyEnter ==
    /\ pc = "input" /\ ui_mode = "TrackList"
    /\ Step
    /\ IF track_list_selected < Len(filtered_indices)
       THEN LET g == goto_body(filtered_indices[track_list_selected + 1])
            IN  /\ current_index' = g.index
                /\ pc' = IF g.ret THEN "load" ELSE "update"
                /\ a_op' = IF g.ret THEN "track_list_play_selected" ELSE a_op
       ELSE /\ pc' = "update"
            /\ UNCHANGED <<current_index, a_op>>
    /\ UNCHANGED <<tracks, shuffle, shuffle_indices, repeat, pFields, now,
                   running, listVars, a_ret, terminal>>

\* App::load_current_track up to the match on load_track's result: Ok plays
\* the track, a DecodeError goes on to the retry, any other error is
\* returned.
LoadAttempt ==
    /\ pc = "load"
    /\ Step
    /\ IF current_track = <<>>
       THEN /\ pc' = "loaded"
            /\ UNCHANGED <<pFields, running, a_ret, terminal>>
       ELSE \E outcome \in LoadOutcomes(current_track[1]) : \E known \in BOOLEAN :
              LET r == load_track_body(current_track[1], outcome, known)
              IN  CASE r.ret = "Ok" ->
                        /\ SetPlayer(play_of(r.player))
                        /\ display_status
                        /\ pc' = "loaded"
                        /\ UNCHANGED <<a_ret, terminal>>
                    [] r.ret = "DecodeError" ->
                        /\ SetPlayer(r.player)
                        /\ pc' = "retry"
                        /\ UNCHANGED <<running, a_ret, terminal>>
                    [] OTHER ->
                        /\ Exit(a_op, r.ret)
                        /\ UNCHANGED running
    /\ UNCHANGED <<plFields, now, listVars, a_op>>

\* The DecodeError arm of load_current_track: next(), then the recursive
\* call, or the "No playable tracks remaining" DecodeError.
LoadRetry ==
    /\ pc = "retry"
    /\ Step
    /\ current_index' = next_body.index
    /\ IF next_body.ret
       THEN pc' = "load" /\ UNCHANGED <<pFields, a_ret, terminal>>
       ELSE Exit(a_op, "NoPlayableTracks")
    /\ UNCHANGED <<tracks, shuffle, shuffle_indices, repeat, now,
                   running, listVars, a_op>>

\* load_current_track has returned Ok to its caller: next_track and
\* previous_track return, track_list_play_selected goes back to Normal
\* mode, update goes on.
LoadReturn ==
    /\ pc = "loaded"
    /\ Step
    /\ IF a_op = "track_list_play_selected"
       THEN set_ui_mode("Normal") /\ display_status
       ELSE UNCHANGED <<listVars, running>>
    /\ pc' = IF a_op = "update" THEN "update_rest" ELSE "update"
    /\ a_op' = "none"
    /\ UNCHANGED <<plFields, pFields, now, a_ret, terminal>>

\* Mutant: at the end of the playlist the app keeps running.
update_keeps_running ==
    IF has_track /\ is_finished
    THEN [finished |-> TRUE, index |-> next_body.index,
          advanced |-> next_body.ret, running |-> running]
    ELSE [finished |-> FALSE, index |-> current_index,
          advanced |-> FALSE, running |-> running]

\* The track-end check of App::update: whether the track had finished, the
\* current_index and result of next(), and App.running.
update_body ==
    IF has_track /\ is_finished
    THEN [finished |-> TRUE, index |-> next_body.index,
          advanced |-> next_body.ret,
          running |-> IF next_body.ret THEN running ELSE FALSE]
    ELSE [finished |-> FALSE, index |-> current_index,
          advanced |-> FALSE, running |-> running]

\* App::update up to the call of load_current_track.
Update ==
    /\ pc = "update"
    /\ Step
    /\ current_index' = update_body.index
    /\ running' = update_body.running
    /\ a_op' = IF update_body.advanced THEN "update" ELSE a_op
    /\ pc' = IF update_body.advanced THEN "load" ELSE "update_rest"
    /\ UNCHANGED <<tracks, shuffle, shuffle_indices, repeat, pFields, now,
                   listVars, a_ret, terminal>>

\* The rest of App::update: the waveform, and display_status when the
\* refresh interval has elapsed.
UpdateRest ==
    /\ pc = "update_rest"
    /\ Step
    /\ \/ UNCHANGED running
       \/ display_status
    /\ pc' = "sleep"
    /\ UNCHANGED <<plFields, pFields, now, listVars,
                   a_op, a_ret, terminal>>

\* The sleep that ends an iteration: d units of time pass, a sink that is
\* not paused plays that much of its queue.
Sleep ==
    /\ pc = "sleep"
    /\ Step
    /\ \E d \in 0..1 :
        /\ now + d <= MaxTime
        /\ now' = now + d
        /\ sink' = IF sink # <<>> /\ ~sink[1].paused
                   THEN <<[sink[1] EXCEPT !.left = Max(sink[1].left - d, 0)]>>
                   ELSE sink
    /\ pc' = "loop"
    /\ UNCHANGED <<plFields, state, current_path, current_duration,
                   playback_start, elapsed_before_pause, running, listVars,
                   a_op, a_ret, terminal>>

\* The Ctrl-C handler, on its own thread once main has installed it: clears
\* the shared flag.
CtrlC ==
    /\ ctrlc_running
    /\ pc \notin {"main", "terminal", "exited"}
    /\ ctrlc_running' = FALSE
    /\ UNCHANGED <<plFields, plHist, pFields, pHist, now, running, listVars,
                   pc, a_op, a_ret, terminal, m3uVars>>

\* ------------------------------------------------------------------ m3u

\* "#EXTINF:"
ExtinfPrefix == <<"#", "E", "X", "T", "I", "N", "F", ":">>

\* The lines an M3U file is made of here: an empty and a blank line, the
\* header, "#EXTINF:7,S", "#EXTINF:-1,N", "#EXTINF:x,U", "#EXTINF:7" (no
\* comma), and the path lines "a.mp3", " b.mp3 " and "/c.mp3".
M3ULines ==
    {<<>>,
     <<" ">>,
     <<"#", "E", "X", "T", "M", "3", "U">>,
     ExtinfPrefix \o <<"7", ",", "S">>,
     ExtinfPrefix \o <<"-", "1", ",", "N">>,
     ExtinfPrefix \o <<"x", ",", "U">>,
     ExtinfPrefix \o <<"7">>,
     <<"a", ".", "m", "p", "3">>,
     <<" ", "b", ".", "m", "p", "3", " ">>,
     <<"/", "c", ".", "m", "p", "3">>}

\* path.parent() of the M3U file, with the separator join adds.
playlist_dir == <<"d", "/">>

\* str::trim (the white space here is the blank).
RECURSIVE trim_start(_)
trim_start(s) ==
    IF s # <<>> /\ s[1] = " " THEN trim_start(Tail(s)) ELSE s

RECURSIVE trim_end(_)
trim_end(s) ==
    IF s # <<>> /\ s[Len(s)] = " "
    THEN trim_end(SubSeq(s, 1, Len(s) - 1))
    ELSE s

trim(s) == trim_end(trim_start(s))

\* str::starts_with and str::strip_prefix (of a string that has the prefix).
starts_with(s, prefix) ==
    Len(s) >= Len(prefix) /\ SubSeq(s, 1, Len(prefix)) = prefix

strip_prefix(s, prefix) == SubSeq(s, Len(prefix) + 1, Len(s))

\* str::split_once: Option<(&str, &str)> around the first occurrence of c.
split_once(s, c) ==
    IF position(s, c) = <<>> THEN <<>>
    ELSE <<[before |-> SubSeq(s, 1, position(s, c)[1]),
            after |-> SubSeq(s, position(s, c)[1] + 2, Len(s))]>>

\* The decimal digits, each at the position of its value.
Digits == <<"0", "1", "2", "3", "4", "5", "6", "7", "8", "9">>

RECURSIVE digits_value(_)
digits_value(s) ==
    IF s = <<>> THEN 0
    ELSE digits_value(SubSeq(s, 1, Len(s) - 1)) * 10
            + position(Digits, s[Len(s)])[1]

\* str::parse::<i64>().ok(): an optional sign, then at least one digit and
\* nothing but digits (the values here are far from overflow).
parse_i64(s) ==
    LET signed == s # <<>> /\ s[1] \in {"+", "-"}
        digits == IF signed THEN Tail(s) ELSE s
    IN  IF digits = <<>>
            \/ \E k \in 1..Len(digits) : position(Digits, digits[k]) = <<>>
        THEN <<>>
        ELSE IF signed /\ s[1] = "-"
             THEN <<0 - digits_value(digits)>>
             ELSE <<digits_value(digits)>>

\* extract_metadata: the Track lofty's tags give for a file (artist and
\* album left out). d/a.mp3 carries a title and a duration; the other files
\* cannot be read or carry nothing.
extract_metadata(path) ==
    IF path = playlist_dir \o <<"a", ".", "m", "p", "3">>
    THEN [path |-> path, title |-> <<(<<"A">>)>>, duration |-> <<9>>]
    ELSE [path |-> path, title |-> <<>>, duration |-> <<>>]

\* Mutant: the pending #EXTINF is not taken by the path line it is applied
\* to.
read_line_keeps_extinf(raw, st) ==
    LET line == trim(raw)
    IN  IF line = <<>> THEN st
        ELSE IF starts_with(line, ExtinfPrefix)
        THEN LET parts == split_once(strip_prefix(line, ExtinfPrefix), ",")
             IN  IF parts = <<>> THEN st
                 ELSE LET secs == parse_i64(parts[1].before)
                      IN  [st EXCEPT !.current_extinf =
                              IF secs = <<>> THEN <<>>
                              ELSE <<[duration |-> Max(secs[1], 0),
                                      title |-> parts[1].after]>>]
        ELSE IF line[1] # "#"
        THEN LET track_path ==
                     IF line[1] = "/" THEN line ELSE playlist_dir \o line
                 track == extract_metadata(track_path)
             IN  [current_extinf |-> st.current_extinf,
                  tracks |-> Append(st.tracks,
                      IF st.current_extinf # <<>>
                      THEN [track EXCEPT
                              !.duration = <<st.current_extinf[1].duration>>,
                              !.title = <<st.current_extinf[1].title>>]
                      ELSE track)]
        ELSE st

\* One iteration of parse_m3u's loop over the lines: the new current_extinf
\* and tracks.
read_line(raw, st) ==
    LET line == trim(raw)
    IN  IF line = <<>> THEN st
        ELSE IF starts_with(line, ExtinfPrefix)
        THEN LET parts == split_once(strip_prefix(line, ExtinfPrefix), ",")
             IN  IF parts = <<>> THEN st
                 ELSE LET secs == parse_i64(parts[1].before)
                      IN  [st EXCEPT !.current_extinf =
                              IF secs = <<>> THEN <<>>
                              ELSE <<[duration |-> Max(secs[1], 0),
                                      title |-> parts[1].after]>>]
        ELSE IF line[1] # "#"
        THEN LET track_path ==
                     IF line[1] = "/" THEN line ELSE playlist_dir \o line
                 track == extract_metadata(track_path)
             IN  [current_extinf |-> <<>>,
                  tracks |-> Append(st.tracks,
                      IF st.current_extinf # <<>>
                      THEN [track EXCEPT
                              !.duration = <<st.current_extinf[1].duration>>,
                              !.title = <<st.current_extinf[1].title>>]
                      ELSE track)]
        ELSE st

\* parse_m3u's loop from the state st over the lines left.
RECURSIVE parse_lines(_, _)
parse_lines(lines, st) ==
    IF lines = <<>> THEN st.tracks
    ELSE parse_lines(Tail(lines), read_line(Head(lines), st))

\* parse_m3u: the file cannot be opened or read (IoError), or its lines are
\* parsed.
parse_m3u ==
    /\ m_ret = "none"
    /\ \E outcome \in {"Ok", "IoError"} :
        /\ m_ret' = outcome
        /\ m_tracks' = IF outcome = "Ok"
                       THEN parse_lines(m_lines, [current_extinf |-> <<>>,
                                                  tracks |-> <<>>])
                       ELSE <<>>
    /\ UNCHANGED <<m_lines, playlistVars, playerVars, appVars>>

\* ------------------------------------------------------------------ spec

Next ==
    \/ next
    \/ previous
    \/ goto
    \/ toggle_shuffle
    \/ cycle_repeat
    \/ add_track

vars == <<playlistVars, playerVars, appVars, m3uVars>>

Spec == Init /\ [][Next]_vars

\* The player on its own (Player::new, then any calls as time passes), with
\* an empty playlist beside it.
InitPlayer ==
    /\ Init
    /\ tracks = <<>>

NextPlayer ==
    \/ load_track
    \/ play
    \/ pause
    \/ toggle_play_pause
    \/ stop
    \/ seek_forward
    \/ seek_backward
    \/ Tick

SpecPlayer == InitPlayer /\ [][NextPlayer]_vars

\* The whole program: main on the main thread (load_playlist, App::new,
\* App::start, run_main_loop) and the Ctrl-C handler; no playlist exists
\* before load_playlist.
InitApp ==
    /\ Init
    /\ tracks = <<>>

\* The steps of the main thread.
Main ==
    \/ LoadPlaylist
    \/ SetupTerminal
    \/ AppNew
    \/ AppStart
    \/ LoopCheck
    \/ NoKey
    \/ InputError
    \/ KeyQuit
    \/ KeyPlayPause
    \/ KeyNext
    \/ KeyPrevious
    \/ KeyShuffle
    \/ KeyRepeat
    \/ KeySeek
    \/ KeyMode
    \/ KeyUpDown
    \/ KeySearch
    \/ KeyEnter
    \/ LoadAttempt
    \/ LoadRetry
    \/ LoadReturn
    \/ Update
    \/ UpdateRest
    \/ Sleep

NextApp ==
    \/ Main
    \/ CtrlC

\* The main thread is never starved: while it has a step to take it
\* eventually takes one.
SpecApp == InitApp /\ [][NextApp]_vars /\ WF_vars(Main)

\* parse_m3u on its own, applied to every file of at most MaxLines lines.
InitM3U ==
    /\ PlaylistInit
    /\ tracks = <<>>
    /\ PlayerInit
    /\ AppInit
    /\ m_lines \in SeqsOf(M3ULines, 0, MaxLines)
    /\ m_tracks = <<>>
    /\ m_ret = "none"

NextM3U == parse_m3u

SpecM3U == InitM3U /\ [][NextM3U]_vars


\* ------------------------------------------------------------------ claims

\* A sequence holding each of 0..n-1 exactly once.
IsPermutation(v, n) ==
    /\ Len(v) = n
    /\ \A x \in 0..(n - 1) : Cardinality({k \in 1..n : v[k] = x}) = 1

Min(a, b) == IF a <= b THEN a ELSE b

\* C1: whenever the playlist is non-empty, 0 <= current_index < len(tracks),
\* after any sequence of next, previous, goto, toggle_shuffle, cycle_repeat
\* and add_track.
C1_IndexInRange ==
    tracks # <<>> => (0 <= current_index /\ current_index < len)

\* goto has just moved to the last index of a full-length playlist.
C1_Witness ==
    /\ op = "goto" /\ ret
    /\ len = MaxTracks
    /\ arg = len - 1
    /\ current_index = len - 1

\* C2: whenever shuffle is On, shuffle_indices has length len(tracks) and
\* holds each of 0..len-1 exactly once, also right after add_track.
C2_PermutationIsBijection ==
    shuffle = "On" => IsPermutation(shuffle_indices, len)

\* add_track has just run with shuffle On, from a moved current_index.
C2_Witness ==
    /\ op = "add_track"
    /\ shuffle = "On"
    /\ pre.current_index > 0
    /\ len >= 3
    /\ shuffle_indices[1] # 0

\* C3: toggle_shuffle taking shuffle from Off to On on a non-empty playlist
\* leaves current_track() returning the same track (the same element of
\* tracks) as before the call, with current_index reset to 0.
C3_ToggleOnKeepsCurrent ==
    (op = "toggle_shuffle" /\ pre.shuffle = "Off" /\ pre.tracks # <<>>) =>
        /\ shuffle = "On"
        /\ current_track = track_of(pre)
        /\ get_actual_index(current_index) = actual_index_of(pre)
        /\ current_index = 0

\* Shuffle was switched On from the last index of a 3-track playlist that
\* had been shuffled before (stale indices left from the earlier On period).
C3_Witness ==
    /\ op = "toggle_shuffle"
    /\ pre.shuffle = "Off"
    /\ pre.shuffle_indices # <<>>
    /\ Len(pre.tracks) >= 3
    /\ pre.current_index = 2
    /\ shuffle = "On"

\* C4 (as claimed): add_track called while shuffle is On, on a playlist that
\* has a current track, leaves current_track() returning the same track as
\* before the call.
C4_AddTrackKeepsCurrent ==
    (op = "add_track" /\ pre.shuffle = "On" /\ pre.tracks # <<>>) =>
        current_track = track_of(pre)

\* C5 (as claimed): toggle_shuffle taking shuffle from On to Off leaves
\* current_track() returning the same track as before the call.
C5_ToggleOffKeepsCurrent ==
    (op = "toggle_shuffle" /\ pre.shuffle = "On" /\ pre.tracks # <<>>) =>
        current_track = track_of(pre)

\* C6: under repeat Off on a non-empty playlist, next() increments
\* current_index and returns true iff current_index + 1 < len, and otherwise
\* returns false leaving current_index unchanged; so the k-th consecutive
\* call of a run that started at index b ends at min(b + k, len - 1) and
\* returns true iff b + k <= len - 1 (from index 0: len - 1 calls reach the
\* last index and every later call returns false there).
C6_NextRepeatOff ==
    (op = "next" /\ pre.repeat = "Off" /\ pre.tracks # <<>>) =>
        /\ IF pre.current_index + 1 < Len(pre.tracks)
           THEN ret /\ current_index = pre.current_index + 1
           ELSE ~ret /\ current_index = pre.current_index
        /\ current_index = Min(base + streak, len - 1)
        /\ ret <=> (base + streak <= len - 1)

\* A run of next() from index 0 of a 3-track playlist: two calls reached the
\* last index, the fourth call returned false with the index still len - 1.
C6_Witness ==
    /\ op = "next" /\ repeat = "Off"
    /\ len = 3 /\ base = 0 /\ streak = 4
    /\ ~ret
    /\ current_index = 2

\* C7: under repeat All on a non-empty playlist, next() returns true and
\* sets current_index to (current_index + 1) mod len, and previous() from
\* index 0 returns true and sets current_index to len - 1.
C7_RepeatAllWraps ==
    /\ (op = "next" /\ pre.repeat = "All" /\ pre.tracks # <<>>) =>
            /\ ret
            /\ current_index = (pre.current_index + 1) % Len(pre.tracks)
    /\ (op = "previous" /\ pre.repeat = "All" /\ pre.tracks # <<>>
            /\ pre.current_index = 0) =>
            /\ ret
            /\ current_index = Len(pre.tracks) - 1

\* next() has just wrapped from the last index of a 3-track playlist to 0.
C7_Witness ==
    /\ op = "next" /\ pre.repeat = "All"
    /\ Len(pre.tracks) = 3
    /\ pre.current_index = 2
    /\ current_index = 0
    /\ ret

\* C8: under repeat Single on a non-empty playlist, next() returns true and
\* changes no field of the playlist (current_index, shuffle state and
\* permutation included), for any number of consecutive calls.
C8_NextRepeatSingle ==
    (op = "next" /\ pre.repeat = "Single" /\ pre.tracks # <<>>) =>
        /\ ret
        /\ Playlist = pre
        /\ current_index = base

\* The third consecutive next() under Single, shuffle On, away from index 0.
C8_Witness ==
    /\ op = "next" /\ repeat = "Single"
    /\ shuffle = "On"
    /\ streak >= 3
    /\ current_index > 0
    /\ ret

\* C9: previous() decrements current_index and returns true whenever
\* current_index > 0, in every repeat mode; at index 0 it wraps to len - 1
\* and returns true under repeat All, and under Off or Single returns false
\* and leaves current_index unchanged.
C9_Previous ==
    (op = "previous" /\ pre.tracks # <<>>) =>
        IF pre.current_index > 0
        THEN ret /\ current_index = pre.current_index - 1
        ELSE IF pre.repeat = "All"
             THEN ret /\ current_index = Len(pre.tracks) - 1
             ELSE ~ret /\ current_index = pre.current_index

\* previous() at index 0 under Single on a multi-track playlist: refused.
C9_Witness ==
    /\ op = "previous"
    /\ pre.repeat = "Single"
    /\ pre.current_index = 0
    /\ Len(pre.tracks) >= 2
    /\ ~ret
    /\ current_index = 0

\* C10: goto(index) returns true and sets current_index = index exactly
\* when index < len, in both shuffle states; for index >= len it returns
\* false and leaves every field of the playlist unchanged.
C10_Goto ==
    op = "goto" =>
        /\ ret <=> (arg < Len(pre.tracks))
        /\ ret => (current_index = arg /\ Playlist = [pre EXCEPT !.current_index = arg])
        /\ ~ret => Playlist = pre

\* goto(5) on a shuffled 3-track playlist standing at index 1: refused.
C10_Witness ==
    /\ op = "goto" /\ arg = 5
    /\ len = 3
    /\ shuffle = "On"
    /\ ~ret
    /\ current_index = 1

\* C11: cycle_repeat moves the repeat mode Off -> All -> Single -> Off and
\* changes no other field of the playlist; three consecutive calls restore
\* the playlist as it was before the first.
C11_CycleRepeat ==
    op = "cycle_repeat" =>
        /\ pre.repeat = "Off" => repeat = "All"
        /\ pre.repeat = "All" => repeat = "Single"
        /\ pre.repeat = "Single" => repeat = "Off"
        /\ [Playlist EXCEPT !.repeat = pre.repeat] = pre
        /\ cycles = 3 => Playlist = origin
        /\ cycles \in {1, 2} => Playlist # origin

\* The third consecutive cycle_repeat on a shuffled playlist away from
\* index 0, back in the mode it started from.
C11_Witness ==
    /\ op = "cycle_repeat"
    /\ cycles = 3
    /\ origin.repeat = "All" /\ repeat = "All"
    /\ shuffle = "On"
    /\ current_index > 0

\* C12: on an empty playlist every operation completes: next, previous and
\* goto(i) return false and change nothing, current_track is none, and
\* toggle_shuffle and cycle_repeat leave the collection empty and
\* current_index 0, in every repeat mode and shuffle state.
C12_EmptyPlaylist ==
    /\ tracks = <<>> =>
            /\ current_track = <<>>
            /\ current_index = 0
            /\ ENABLED previous
            /\ ENABLED goto
            /\ ENABLED toggle_shuffle
            /\ ENABLED cycle_repeat
            /\ streak < MaxStreak => ENABLED next
    /\ (pre.tracks = <<>> /\ op \in {"next", "previous", "goto"}) =>
            /\ ~ret
            /\ Playlist = pre
    /\ (pre.tracks = <<>> /\ op = "toggle_shuffle") =>
            /\ tracks = <<>> /\ current_index = 0
            /\ shuffle_indices = <<>>
            /\ shuffle # pre.shuffle
    /\ (pre.tracks = <<>> /\ op = "cycle_repeat") =>
            /\ tracks = <<>> /\ current_index = 0

\* next() on an empty playlist under repeat All (the branch that divides by
\* len) with shuffle On: refused.
C12_Witness ==
    /\ op = "next"
    /\ tracks = <<>>
    /\ repeat = "All"
    /\ shuffle = "On"
    /\ ~ret

\* C15: in every reachable Player state playback_start is set iff state is
\* Playing, and current_position is elapsed_before_pause plus the time since
\* playback_start when Playing and exactly elapsed_before_pause otherwise.
C15_PositionTracking ==
    /\ (playback_start # <<>>) <=> (state = "Playing")
    /\ state = "Playing" =>
            current_position = elapsed_before_pause + (now - playback_start[1])
    /\ state # "Playing" => current_position = elapsed_before_pause

\* A load has just failed while the player was Playing with time folded in
\* from an earlier pause or seek and time running since the last start.
C15_Witness ==
    /\ p_op = "load_track" /\ p_ret = "DecodeError"
    /\ state = "Playing"
    /\ elapsed_before_pause > 0
    /\ now > playback_start[1]

C17_PlayPauseIdempotent ==
    (\/ p_op = "play" /\ p_pre.player.state = "Playing"
     \/ p_op = "pause" /\ p_pre.player.state = "Paused") =>
        /\ state = p_pre.player.state
        /\ playback_start = p_pre.player.playback_start
        /\ elapsed_before_pause = p_pre.player.elapsed_before_pause
        /\ sink[1].paused = p_pre.player.sink[1].paused
        /\ current_path = p_pre.player.current_path
        /\ current_duration = p_pre.player.current_duration
        /\ current_position = position_of(p_pre.player, now)

\* play was called on a player that had been Playing for some time, and
\* time has passed since: the position still counts from the first start.
C17_Witness ==
    /\ p_op = "play"
    /\ p_pre.player.state = "Playing"
    /\ p_pre.now > p_pre.player.playback_start[1]
    /\ now > p_pre.now
    /\ current_position = now - playback_start[1]
    /\ current_position >= 2

\* C18: as long as no seek has moved it, the position of a loaded track is
\* the total time spent Playing since the load: after load, play, d units of
\* time and pause it is d, and it does not change while time passes Paused.
C18_PositionIsTimePlayed ==
    (sink # <<>> /\ ~seeked) => current_position = played

\* Played for one unit, paused for one, played again for one: position 2.
C18_Witness ==
    /\ p_op = "toggle_play_pause"
    /\ p_pre.player.state = "Paused"
    /\ p_pre.player.elapsed_before_pause = 1
    /\ p_pre.now = 2
    /\ now = 3
    /\ ~seeked
    /\ played = 2
    /\ current_position = 2

\* C19: a successful seek to target t sets elapsed_before_pause = t and
\* keeps the Playing/Paused state; from Playing the start timestamp is
\* re-armed to the instant of the seek, so the position advances from t;
\* from Paused the player stays Paused at exactly t. The position the
\* player had before (an earlier seek's included) plays no part.
C19_SeekSetsPosition ==
    (p_op \in {"seek_forward", "seek_backward"} /\ p_ret = "Ok"
        /\ p_target # <<>>) =>
        /\ elapsed_before_pause = p_target[1]
        /\ state = p_pre.player.state
        /\ state \in {"Playing", "Paused"}
        /\ state = "Playing" =>
                /\ playback_start = <<p_pre.now>>
                /\ current_position = p_target[1] + (now - p_pre.now)
        /\ state = "Paused" =>
                /\ playback_start = <<>>
                /\ current_position = p_target[1]

\* A seek back to 0 right after a seek forward to 1 while Playing, no time
\* between the two: the position is 0.
C19_Witness ==
    /\ p_op = "seek_backward" /\ p_ret = "Ok"
    /\ p_pre.op = "seek_forward"
    /\ p_pre.player.state = "Playing"
    /\ p_pre.player.elapsed_before_pause = 1
    /\ p_pre.player.playback_start = <<p_pre.now>>
    /\ now = p_pre.now
    /\ p_target = <<0>>
    /\ current_position = 0

\* The App operations that load a track.
LoadPaths ==
    {"start", "next_track", "previous_track", "track_list_play_selected",
     "update"}

\* C13 (as claimed): the retry on load failure always terminates: once
\* load_current_track has been entered, for every playlist, repeat mode,
\* shuffle state and set of undecodable tracks, it returns (Ok, or the fatal
\* error once next() has returned false); it never retries forever.
C13_RetryTerminates ==
    (pc = "load") ~> (pc \notin {"load", "retry"})

\* C14 (as claimed): on every driver path that loads a track (start,
\* next_track, previous_track, track_list_play_selected, update's advance) a
\* DecodeError is recovered by skipping to the next track and is not fatal by
\* itself: what such a path returns to end the main closure is a FileError,
\* an InitializationError, or "no playable tracks remaining" after next()
\* has returned false.
C14_LoadErrorsClassified ==
    (pc = "exited" /\ a_ret.op \in LoadPaths) =>
        a_ret.err \in {"FileError", "InitializationError", "NoPlayableTracks"}

C21_FirstTrackCurrent ==
    /\ (fresh /\ tracks # <<>>) =>
            /\ current_index = 0
            /\ shuffle = "Off"
            /\ repeat = "Off"
            /\ current_track = <<tracks[1]>>
    /\ (fresh /\ op = "add_track") =>
            current_track = IF pre.tracks = <<>> THEN <<arg>> ELSE track_of(pre)

\* A playlist grown to three tracks by add_track alone, the last one added
\* differing from the first: the first is current.
C21_Witness ==
    /\ fresh
    /\ op = "add_track"
    /\ len = 3
    /\ tracks[1] = "b.mp3" /\ arg = "a.mp3"
    /\ current_track = <<"b.mp3">>

\* C22: current_track() is none only if the collection is empty: with at
\* least one track, in both shuffle states, the index resolved through the
\* permutation is < len and current_track() is that track of the collection.
C22_CurrentTrackSome ==
    tracks # <<>> =>
        /\ get_actual_index(current_index) < len
        /\ current_track = <<tracks[get_actual_index(current_index) + 1]>>

\* previous() has wrapped to the last logical index of a shuffled 3-track
\* playlist whose permutation does not map that index to itself.
C22_Witness ==
    /\ op = "previous" /\ ret
    /\ shuffle = "On"
    /\ len = 3
    /\ pre.current_index = 0 /\ current_index = 2
    /\ shuffle_indices[3] # 2
    /\ current_track # <<>>

\* C28: toggle_shuffle taking shuffle from On to Off changes only the
\* shuffle flag (current_index keeps its value, tracks and repeat mode are
\* unchanged), and with shuffle Off navigation walks the unshuffled order
\* from that index: the current track is tracks[current_index], and next()
\* under Off or All moves to the track that follows it in tracks.
C28_ToggleOffFrame ==
    /\ (op = "toggle_shuffle" /\ pre.shuffle = "On") =>
            Playlist = [pre EXCEPT !.shuffle = "Off"]
    /\ (shuffle = "Off" /\ tracks # <<>>) =>
            current_track = get(tracks, current_index)
    /\ (op = "next" /\ ret /\ shuffle = "Off" /\ pre.repeat # "Single") =>
            current_track = <<tracks[((pre.current_index + 1) % len) + 1]>>

\* next() after shuffle was switched Off, from logical index 1 of a
\* 3-track playlist, the permutation left behind mapping index 2 elsewhere.
C28_Witness ==
    /\ op = "next" /\ ret
    /\ shuffle = "Off"
    /\ len = 3
    /\ pre.current_index = 1 /\ current_index = 2
    /\ Len(shuffle_indices) = 3
    /\ shuffle_indices[3] # 2
    /\ current_track = <<tracks[3]>>

\* C29: the track collection is never reordered or modified by navigation
\* or mode changes: next, previous, goto, toggle_shuffle and cycle_repeat
\* leave tracks unchanged, and add_track only appends one element at the
\* end, leaving the existing prefix unchanged.
C29_TracksNeverReordered ==
    /\ op \in {"next", "previous", "goto", "toggle_shuffle", "cycle_repeat"} =>
            tracks = pre.tracks
    /\ op = "add_track" =>
            /\ Len(tracks) = Len(pre.tracks) + 1
            /\ SubSeq(tracks, 1, Len(pre.tracks)) = pre.tracks
            /\ tracks[Len(tracks)] = arg

\* add_track on a shuffled two-track playlist, the added track differing
\* from the last one there.
C29_Witness ==
    /\ op = "add_track"
    /\ pre.shuffle = "On"
    /\ pre.tracks = <<"a.mp3", "b.mp3">>
    /\ arg = "a.mp3"
    /\ tracks = <<"a.mp3", "b.mp3", "a.mp3">>

\* C30 (as claimed): the shuffle permutation is populated only while shuffle
\* is On: in every reachable state with shuffle Off the stored permutation
\* is empty.
C30_PermutationOnlyWhileOn ==
    shuffle = "Off" => shuffle_indices = <<>>

\* C30 (amended): the permutation is empty until shuffle is first switched
\* On; an On -> Off toggle leaves it stored as it was, and while shuffle is
\* Off it is never consulted (the index is used as it is) and it is a
\* permutation of its own length, which is at most len.
C30_PermutationUnusedWhileOff ==
    /\ fresh => shuffle_indices = <<>>
    /\ (op = "toggle_shuffle" /\ pre.shuffle = "On") =>
            /\ shuffle = "Off"
            /\ shuffle_indices = pre.shuffle_indices
    /\ shuffle = "Off" =>
            /\ get_actual_index(current_index) = current_index
            /\ Len(shuffle_indices) <= len
            /\ IsPermutation(shuffle_indices, Len(shuffle_indices))

\* Shuffle is Off and the permutation of an earlier On period is still
\* stored, one track having been added since.
C30_Witness ==
    /\ shuffle = "Off"
    /\ op = "add_track"
    /\ len = 3
    /\ Len(shuffle_indices) = 2
    /\ shuffle_indices = <<1, 0>>

\* C26: a newly created Player is Stopped with no track and position zero,
\* and while no track is loaded play, pause, toggle_play_pause, seek_forward
\* and seek_backward change nothing: the state stays Stopped and the
\* position stays zero as time passes.
C26_NoTrackNoOps ==
    /\ p_op = "new" =>
            /\ state = "Stopped"
            /\ ~has_track
            /\ current_position = 0
    /\ ~has_track =>
            /\ state = "Stopped"
            /\ current_position = 0
    /\ (p_pre.player.sink = <<>>
            /\ p_op \in {"play", "pause", "toggle_play_pause",
                         "seek_forward", "seek_backward"}) =>
            /\ Player = p_pre.player
            /\ p_ret = "Ok"

\* toggle_play_pause, then seek_forward, on a player that has no track,
\* time passing before and after.
C26_Witness ==
    /\ p_op = "seek_forward"
    /\ p_pre.op = "toggle_play_pause"
    /\ p_pre.player.sink = <<>>
    /\ p_pre.now > 0 /\ now > p_pre.now
    /\ ~has_track
    /\ state = "Stopped"
    /\ current_position = 0

\* C23: construction from a directory scan or an M3U file fails with the
\* EmptyPlaylist error when no tracks are found (main's own is_empty check
\* is never the one that fires), so no App is created and no main loop is
\* entered with an empty playlist: the playlist is non-empty in every state
\* of the program past load_playlist.
C23_NeverEmptyWhileRunning ==
    /\ pc \notin {"main", "exited"} => tracks # <<>>
    /\ pc = "exited" =>
            /\ a_ret.err # "NoAudioFiles"
            /\ a_ret.op = "load_playlist" => tracks = <<>>
            /\ a_ret.op # "load_playlist" => tracks # <<>>

\* load_playlist found nothing: main has returned the EmptyPlaylist error.
C23_Witness ==
    /\ pc = "exited"
    /\ a_ret = [op |-> "load_playlist", err |-> "EmptyPlaylist"]
    /\ tracks = <<>>
    /\ state = "Stopped"

\* C27 (as claimed): at whatever point of an iteration the Ctrl-C handler
\* clears the shared running flag, the main loop exits at its next
\* loop-condition check and main's closure returns; no interleaving of the
\* handler with the loop leaves the loop running forever.
C27_CtrlCExits ==
    (~ctrlc_running) ~> (pc = "exited")

\* A path line: not empty once trimmed, and not a '#' line.
IsPathLine(raw) == trim(raw) # <<>> /\ trim(raw)[1] # "#"

\* An "#EXTINF:<seconds>,<title>" line, and its two fields.
IsExtinfLine(raw) ==
    /\ starts_with(trim(raw), ExtinfPrefix)
    /\ position(strip_prefix(trim(raw), ExtinfPrefix), ",") # <<>>

SecondsField(raw) ==
    split_once(strip_prefix(trim(raw), ExtinfPrefix), ",")[1].before

TitleField(raw) ==
    split_once(strip_prefix(trim(raw), ExtinfPrefix), ",")[1].after

\* The positions of the path lines of the file, the number of a path line
\* among them, and the #EXTINF lines standing between the path line before
\* it and a path line.
PathIdx == {i \in 1..Len(m_lines) : IsPathLine(m_lines[i])}

Rank(i) == Cardinality({j \in PathIdx : j <= i})

ExtinfBefore(i) ==
    {j \in 1..(i - 1) :
        /\ IsExtinfLine(m_lines[j])
        /\ \A k \in PathIdx : ~(j < k /\ k < i)}

LastOf(S) == CHOOSE j \in S : \A k \in S : k <= j

\* The track a path line gives when nothing overrides the file's own tags.
PlainTrack(raw) ==
    extract_metadata(IF trim(raw)[1] = "/" THEN trim(raw)
                     ELSE playlist_dir \o trim(raw))

\* C24: parse_m3u yields one track per path line, in file order; an
\* #EXTINF:<seconds>,<title> line with a valid duration overrides duration
\* and title of the path line that follows it, whatever the file's tags, and
\* is consumed by it: a path line with no #EXTINF of its own since the path
\* line before gets the file's own metadata.
C24_ExtinfAppliesToNextPath ==
    m_ret = "Ok" =>
        /\ Len(m_tracks) = Cardinality(PathIdx)
        /\ \A i \in PathIdx :
            LET track == m_tracks[Rank(i)]
            IN  /\ track.path = PlainTrack(m_lines[i]).path
                /\ ExtinfBefore(i) = {} => track = PlainTrack(m_lines[i])
                /\ ExtinfBefore(i) # {} =>
                    LET extinf == m_lines[LastOf(ExtinfBefore(i))]
                        secs == parse_i64(SecondsField(extinf))
                    IN  (secs # <<>> /\ secs[1] >= 0) =>
                            /\ track.duration = secs
                            /\ track.title = <<TitleField(extinf)>>

\* "#EXTINF:7,S", "a.mp3", "a.mp3": the first track has duration 7 and title
\* "S" in spite of the file's tags, the second has the file's own.
C24_Witness ==
    /\ m_ret = "Ok"
    /\ m_lines = <<ExtinfPrefix \o <<"7", ",", "S">>,
                   <<"a", ".", "m", "p", "3">>,
                   <<"a", ".", "m", "p", "3">>>>
    /\ Len(m_tracks) = 2
    /\ m_tracks[1].duration = <<7>> /\ m_tracks[1].title = <<(<<"S">>)>>
    /\ m_tracks[2].duration = <<9>> /\ m_tracks[2].title = <<(<<"A">>)>>

\* C25 (as claimed): an #EXTINF line whose duration field is negative or is
\* not a parseable integer supplies no duration: the duration of the track
\* of the following path line is the one extracted from the file.
C25_BadDurationIgnored ==
    m_ret = "Ok" =>
        \A i \in PathIdx :
            ExtinfBefore(i) # {} =>
                LET extinf == m_lines[LastOf(ExtinfBefore(i))]
                    secs == parse_i64(SecondsField(extinf))
                IN  (secs = <<>> \/ secs[1] < 0) =>
                        m_tracks[Rank(i)].duration =
                            PlainTrack(m_lines[i]).duration

\* The last call left the player as it found it: every field is as it was
\* when the call was made, the sink being the same sink, which has since
\* played what the time passed made it play.
LeftAsFound ==
    /\ state = p_pre.player.state
    /\ elapsed_before_pause = p_pre.player.elapsed_before_pause
    /\ playback_start = p_pre.player.playback_start
    /\ current_path = p_pre.player.current_path
    /\ current_duration = p_pre.player.current_duration
    /\ (sink = <<>>) <=> (p_pre.player.sink = <<>>)
    /\ sink # <<>> => sink[1].paused = p_pre.player.sink[1].paused
    /\ now = p_pre.now => sink = p_pre.player.sink

\* C31: a failed seek (the file cannot be opened, decoding fails, no sink can
\* be created) leaves sink, state, elapsed_before_pause, playback_start,
\* current_path and duration exactly as they were before the call, and so
\* does a failed load_track.
C31_FailureIsAtomic ==
    (p_op \in {"seek_forward", "seek_backward", "load_track"}
        /\ p_ret # "Ok") => LeftAsFound

\* A seek forward to position 1 of a track that was Playing has just failed
\* in the decoder; the sink that was playing is still there.
C31_Witness ==
    /\ p_op = "seek_forward" /\ p_ret = "DecodeError"
    /\ p_target = <<1>>
    /\ state = "Playing"
    /\ sink # <<>> /\ ~sink[1].paused
    /\ now = p_pre.now

\* C36: seek_forward never moves the position to or past the end. When
\* current_position + step >= duration (a track of unknown duration, recorded
\* as zero, included) it returns Ok and changes nothing; otherwise it hands
\* current_position + step, which is < duration, to seek_to.
C36_SeekForwardBelowEnd ==
    p_op = "seek_forward" =>
        LET pos == position_of(p_pre.player, p_pre.now)
            duration == p_pre.player.current_duration
        IN  IF pos + p_arg >= duration
            THEN /\ p_ret = "Ok"
                 /\ p_target = <<>>
                 /\ LeftAsFound
            ELSE /\ p_target = <<pos + p_arg>>
                 /\ p_target[1] < duration
                 /\ p_ret = "Ok" => /\ elapsed_before_pause = pos + p_arg
                                    /\ position_of(Player, p_pre.now) < duration

\* A seek forward by two units from position 0 of a Playing track of length
\* two did nothing, and time has passed since.
C36_Witness ==
    /\ p_op = "seek_forward" /\ p_arg = 2
    /\ p_pre.player.state = "Playing"
    /\ p_pre.player.current_duration = AudioLen
    /\ position_of(p_pre.player, p_pre.now) = 0
    /\ p_target = <<>>
    /\ now > p_pre.now

\* C37: a successful seek_backward(step) on a loaded track sets the position
\* to max(0, current_position - step), never below zero, and keeps the
\* Playing or Paused state it found.
C37_SeekBackwardSaturates ==
    (p_op = "seek_backward" /\ p_pre.player.current_path # <<>>) =>
        LET pos == position_of(p_pre.player, p_pre.now)
        IN  /\ p_target = <<Max(pos - p_arg, 0)>>
            /\ p_target[1] >= 0
            /\ p_ret = "Ok" =>
                    /\ position_of(Player, p_pre.now) = Max(pos - p_arg, 0)
                    /\ current_position >= 0
                    /\ state = p_pre.player.state

\* A seek backward by two units from position 1 of a Paused track: the
\* position is 0 and the player is still Paused.
C37_Witness ==
    /\ p_op = "seek_backward" /\ p_ret = "Ok" /\ p_arg = 2
    /\ p_pre.player.state = "Paused"
    /\ position_of(p_pre.player, p_pre.now) = 1
    /\ state = "Paused"
    /\ current_position = 0

\* C38: in every reachable Player state, state = Stopped iff no sink is
\* loaded iff current_path is none; and whenever a sink is loaded, the sink
\* is paused iff state = Paused.
C38_StateMatchesSink ==
    /\ (state = "Stopped") <=> (sink = <<>>)
    /\ (sink = <<>>) <=> (current_path = <<>>)
    /\ sink # <<>> => (sink[1].paused <=> (state = "Paused"))

\* A failed seek on a Paused track right after a stop and a reload.
C38_Witness ==
    /\ p_op = "seek_backward" /\ p_ret = "InitializationError"
    /\ p_pre.op = "load_track"
    /\ state = "Paused"
    /\ sink # <<>> /\ sink[1].paused
    /\ current_path # <<>>

\* C40: a shuffled pass plays every track exactly once. With repeat Off,
\* after toggle_shuffle takes shuffle from Off to On at any current_index,
\* calling next() until it returns false succeeds exactly len - 1 times and
\* current_track() takes each track of the playlist exactly once, starting
\* with the track that was current at the toggle.
C40_ShuffledPass ==
    pass # <<>> =>
        LET seen == pass[1].seen
        IN  /\ seen[1] = pass[1].start
            /\ \A i \in 1..Len(seen) : seen[i] \in 0..(len - 1)
            /\ \A i, j \in 1..Len(seen) : seen[i] = seen[j] => i = j
            /\ current_track = <<tracks[seen[Len(seen)] + 1]>>
            /\ Len(seen) <= len
            /\ pass[1].done =>
                    /\ Len(seen) - 1 = len - 1
                    /\ {seen[i] : i \in 1..Len(seen)} = 0..(len - 1)

\* A pass over three tracks begun at the last one has ended, and it did not
\* take the tracks in their stored order.
C40_Witness ==
    /\ pass # <<>>
    /\ pass[1].done
    /\ len = 3
    /\ pass[1].start = 2
    /\ pass[1].seen = <<2, 0, 1>>
    /\ op = "next" /\ ~ret

\* C32: once raw mode has been enabled, every way main can end (quit key,
\* end of playlist, Ctrl-C, an error from entering the alternate screen, from
\* App::new, start or the main loop, or a panic) leaves the terminal with raw
\* mode disabled and the alternate screen left, unless the calls that
\* restore it fail themselves.
C32_TerminalReleased ==
    (pc = "exited" /\ terminal.cleanup # "IoError") =>
        /\ ~terminal.raw_mode
        /\ ~terminal.alternate_screen

\* The main thread stands between two handlers of the main loop.
BetweenHandlers == pc \in {"loop", "input", "update", "update_rest", "sleep"}

\* C33: the audible track and the playlist's current track never diverge.
\* Whenever the running App's player has a track loaded, after any sequence
\* of key actions and auto-advances, the player's current_path is the path
\* of playlist.current_track().
C33_AudibleIsCurrent ==
    (BetweenHandlers /\ sink # <<>>) => current_path = current_track

\* C34: selecting a row in the track list plays that row's track. Whenever
\* track_list_play_selected succeeds on a row whose file decodes, the track
\* that becomes current and is loaded is
\* tracks()[filtered_indices[track_list_selected]], shuffle On or Off and
\* whatever the search filter; and the rows marked as playing in the list
\* are the rows of the current track.
C34_SelectedRowPlays ==
    /\ (pc = "loaded" /\ a_op = "track_list_play_selected"
            /\ tracks[filtered_indices[track_list_selected + 1] + 1]
                    \notin Undecodable) =>
            /\ get_actual_index(current_index) =
                    filtered_indices[track_list_selected + 1]
            /\ current_path =
                    <<tracks[filtered_indices[track_list_selected + 1] + 1]>>
    /\ (BetweenHandlers /\ ui_mode = "TrackList") =>
            playing_rows =
                {k \in 0..(Len(filtered_indices) - 1) :
                    filtered_indices[k + 1] = get_actual_index(current_index)}

\* C35: whenever load_current_track returns Ok on a non-empty playlist, the
\* player is Playing the playlist's current track with the position
\* restarted from zero, whatever the player state was before and however
\* many undecodable tracks were skipped on the way.
C35_LoadedIsPlaying ==
    (pc = "loaded" /\ tracks # <<>>) =>
        /\ state = "Playing"
        /\ sink # <<>> /\ ~sink[1].paused
        /\ current_path = current_track
        /\ current_path[1] \notin Undecodable
        /\ elapsed_before_pause = 0
        /\ playback_start = <<now>>
        /\ current_position = 0

\* next_track under repeat All has left the first of two tracks, skipped
\* the undecodable second one and come back to the first, which plays from
\* zero at an instant later than 0.
C35_Witness ==
    /\ pc = "loaded" /\ a_op = "next_track"
    /\ tracks = <<"a.mp3", "b.mp3">>
    /\ repeat = "All" /\ shuffle = "Off"
    /\ current_index = 0
    /\ now > 0
    /\ state = "Playing" /\ current_position = 0

\* C39: in every reachable state with ui_mode = TrackList every element of
\* filtered_indices is < len(tracks), and track_list_selected is
\* < len(filtered_indices), or filtered_indices is empty and
\* track_list_selected = 0; outside TrackList mode the search query is
\* empty.
C39_TrackListBounds ==
    /\ ui_mode = "TrackList" =>
            /\ \A k \in 1..Len(filtered_indices) : filtered_indices[k] < len
            /\ \/ track_list_selected < Len(filtered_indices)
               \/ filtered_indices = <<>> /\ track_list_selected = 0
    /\ ui_mode # "TrackList" => search_query = <<>>

\* The search typed in the track list of a two-track playlist matches
\* nothing: the list is empty and the selection is row 0.
C39_Witness ==
    /\ ui_mode = "TrackList"
    /\ len = 2
    /\ search_query # <<>>
    /\ filtered_indices = <<>>
    /\ track_list_selected = 0
    /\ pc = "update"

====
